---- MODULE Spec2Model ----
(***************************************************************************)
(* Model of src/myenv/app.py: the two helpers format_time and              *)
(* get_weather_description_and_icon, and the request handler index().      *)
(*                                                                         *)
(* Python values are tagged records.  Text that the code inspects          *)
(* character by character (descriptions, ISO timestamps) is a sequence of  *)
(* one-character strings; text that the code only produces is a string.    *)
(* JSON numbers are held in quarters (q = 4 * value): quarters are exact   *)
(* binary fractions, so the rounding of the f-string format specs is       *)
(* computed exactly.                                                       *)
(***************************************************************************)
EXTENDS Integers, Sequences, FiniteSets, TLC

VARIABLES
    pc,              \* position of the handler: idle, read_city, geo, weather, render, done, raised
    method,          \* request.method
    form,            \* request.form, a function from field names to values
    city,            \* local 'city'
    lat, lon,        \* locals 'lat' and 'lon'
    display_city_name,
    weather_data,    \* local 'weather_data': None or Some(dict)
    forecast_list,   \* local 'forecast_list': None or Some(list)
    error_message,   \* local 'error_message': None or Some(message)
    calls,           \* the outbound requests.get calls of the current request, in order
    geo_seen,        \* what the geocoding call returned (None before it)
    wx_seen,         \* what the weather call returned (None before it)
    view,            \* what render_template received: None or Some(record)
    escaped,         \* the exception that left the handler, "" if none
    host_utc_offset, \* UTC offset of the host's local time zone, in seconds
    ft_arg,          \* format_time harness: the arguments, None before a draw
    ft_out,          \* format_time harness: the outcome, None before the call
    tr_arg,          \* translator harness: the code
    tr_out           \* translator harness: the outcome, None before the call

vars == <<pc, method, form, city, lat, lon, display_city_name, weather_data,
          forecast_list, error_message, calls, geo_seen, wx_seen, view, escaped,
          host_utc_offset, ft_arg, ft_out, tr_arg, tr_out>>

handler_vars == <<pc, method, form, city, lat, lon, display_city_name, weather_data,
                  forecast_list, error_message, calls, geo_seen, wx_seen, view, escaped>>

-----------------------------------------------------------------------------
(* Text *)

LowerCase == <<"a","b","c","d","e","f","g","h","i","j","k","l","m",
               "n","o","p","q","r","s","t","u","v","w","x","y","z">>
UpperCase == <<"A","B","C","D","E","F","G","H","I","J","K","L","M",
               "N","O","P","Q","R","S","T","U","V","W","X","Y","Z">>
Digits == <<"0","1","2","3","4","5","6","7","8","9">>

IndexIn(c, alphabet) ==
    IF \E i \in DOMAIN alphabet : alphabet[i] = c
    THEN CHOOSE i \in DOMAIN alphabet : alphabet[i] = c
    ELSE 0

ToUpper(c) == IF IndexIn(c, LowerCase) # 0 THEN UpperCase[IndexIn(c, LowerCase)] ELSE c
ToLower(c) == IF IndexIn(c, UpperCase) # 0 THEN LowerCase[IndexIn(c, UpperCase)] ELSE c

RECURSIVE Join(_)
Join(s) == IF s = <<>> THEN "" ELSE s[1] \o Join(Tail(s))

\* str(n) for n >= 0
RECURSIVE NatStr(_)
NatStr(n) == IF n < 10 THEN Digits[n + 1] ELSE NatStr(n \div 10) \o Digits[(n % 10) + 1]

TwoDigits(n) == Digits[(n \div 10) + 1] \o Digits[(n % 10) + 1]

-----------------------------------------------------------------------------
(* Python values *)

None == <<>>
Some(x) == <<x>>

PyNone == [t |-> "none"]
PyNum(q) == [t |-> "num", q |-> q]
PyInt(n) == PyNum(4 * n)
\* a number of magnitude 10^18, far outside the range of datetime
PyBig == [t |-> "big"]
PyStr(s) == [t |-> "str", s |-> s]
PyList(a) == [t |-> "list", a |-> a]
PyDict(o) == [t |-> "dict", o |-> o]

Ok(v) == [exc |-> "", arg |-> "", v |-> v]
Raise(e, a) == [exc |-> e, arg |-> a, v |-> PyNone]

\* obj[key] for a string key
GetItem(obj, key) ==
    CASE obj.t = "dict" ->
            IF key \in DOMAIN obj.o THEN Ok(obj.o[key])
            ELSE Raise("KeyError", "'" \o key \o "'")
      [] obj.t \in {"list", "str"} -> Raise("TypeError", "indices must be integers")
      [] OTHER -> Raise("TypeError", "not subscriptable")

\* obj[i] for a non-negative integer i
GetIndex(obj, i) ==
    CASE obj.t = "list" ->
            IF i + 1 \in DOMAIN obj.a THEN Ok(obj.a[i + 1])
            ELSE Raise("IndexError", "list index out of range")
      [] obj.t = "str" ->
            IF i + 1 \in DOMAIN obj.s THEN Ok(PyStr(<<obj.s[i + 1]>>))
            ELSE Raise("IndexError", "string index out of range")
      [] obj.t = "dict" ->
            Raise("KeyError", NatStr(i))
      [] OTHER -> Raise("TypeError", "not subscriptable")

\* bool(v) as 'v is not None' would have it
Truthy_NoneOnly(v) == v.t # "none"

\* bool(v)
Truthy(v) ==
    CASE v.t = "none" -> FALSE
      [] v.t = "num" -> v.q # 0
      [] v.t = "big" -> TRUE
      [] v.t = "str" -> v.s # <<>>
      [] v.t = "list" -> v.a # <<>>
      [] v.t = "dict" -> DOMAIN v.o # {}

-----------------------------------------------------------------------------
(* f-string format specs ':.0f' and ':.1f' *)

Abs(n) == IF n < 0 THEN -n ELSE n
SignStr(q) == IF q < 0 THEN "-" ELSE ""

\* |q|/4 rounded to an integer, ties to even
RoundUnits(q) ==
    LET a == Abs(q)
        n == a \div 4
        r == a % 4
    IN IF r > 2 \/ (r = 2 /\ n % 2 = 1) THEN n + 1 ELSE n

\* |q|/4 rounded to tenths, ties to even; the result counts tenths
RoundTenths(q) ==
    LET a == Abs(q) * 5
        n == a \div 2
        r == a % 2
    IN IF r = 1 /\ n % 2 = 1 THEN n + 1 ELSE n

\* f"{v:.0f}"
Format0f(v) ==
    CASE v.t = "num" -> Ok(SignStr(v.q) \o NatStr(RoundUnits(v.q)))
      [] v.t = "big" -> Ok("1000000000000000000")
      [] v.t = "str" -> Raise("ValueError", "Unknown format code 'f' for object of type 'str'")
      [] OTHER -> Raise("TypeError", "unsupported format string")

\* f"{v:.1f}"
Format1f(v) ==
    CASE v.t = "num" ->
            Ok(SignStr(v.q) \o NatStr(RoundTenths(v.q) \div 10) \o "."
               \o Digits[(RoundTenths(v.q) % 10) + 1])
      [] v.t = "big" -> Ok("1000000000000000000.0")
      [] v.t = "str" -> Raise("ValueError", "Unknown format code 'f' for object of type 'str'")
      [] OTHER -> Raise("TypeError", "unsupported format string")

\* f"{v}" of the values the handler interpolates without a format spec
Interpolate(v) ==
    CASE v.t = "str" -> Join(v.s)
      [] v.t = "num" ->
            IF v.q % 4 = 0 THEN SignStr(v.q) \o NatStr(Abs(v.q) \div 4)
            ELSE SignStr(v.q) \o NatStr(Abs(v.q) \div 4) \o "."
                 \o <<"25", "5", "75">>[Abs(v.q) % 4]
      [] v.t = "big" -> "1e+18"
      [] v.t = "none" -> "None"
      [] v.t = "list" -> "[...]"
      [] v.t = "dict" -> "{...}"

-----------------------------------------------------------------------------
(* datetime *)

IsLeap(y) == (y % 4 = 0 /\ y % 100 # 0) \/ y % 400 = 0

DaysInMonth(y, m) ==
    CASE m \in {4, 6, 9, 11} -> 30
      [] m = 2 -> IF IsLeap(y) THEN 29 ELSE 28
      [] OTHER -> 31

\* days from 1970-01-01 to y-m-d in the proleptic Gregorian calendar
DaysFromCivil(y, m, d) ==
    LET yy == IF m <= 2 THEN y - 1 ELSE y
        era == yy \div 400
        yoe == yy - era * 400
        mp == (m + 9) % 12
        doy == (153 * mp + 2) \div 5 + d - 1
        doe == yoe * 365 + yoe \div 4 - yoe \div 100 + doy
    IN era * 146097 + doe - 719468

IsDigit(c) == IndexIn(c, Digits) # 0
DigitsAt(s, from, to) == \A i \in from..to : IsDigit(s[i])

RECURSIVE NumAt(_, _, _)
NumAt(s, from, to) ==
    IF to < from THEN 0 ELSE NumAt(s, from, to - 1) * 10 + (IndexIn(s[to], Digits) - 1)

\* datetime.fromisoformat(s) for the forms every supported interpreter accepts:
\* YYYY-MM-DD, optionally followed by one separator character and HH, HH:MM or
\* HH:MM:SS
fromisoformat(v) ==
    IF v.t # "str" THEN Raise("TypeError", "fromisoformat: argument must be str") ELSE
    LET s == v.s
        n == Len(s)
        shape == /\ n \in {10, 13, 16, 19}
                 /\ DigitsAt(s, 1, 4) /\ s[5] = "-" /\ DigitsAt(s, 6, 7)
                 /\ s[8] = "-" /\ DigitsAt(s, 9, 10)
                 /\ n >= 13 => DigitsAt(s, 12, 13)
                 /\ n >= 16 => (s[14] = ":" /\ DigitsAt(s, 15, 16))
                 /\ n >= 19 => (s[17] = ":" /\ DigitsAt(s, 18, 19))
        y == NumAt(s, 1, 4)
        m == NumAt(s, 6, 7)
        d == NumAt(s, 9, 10)
        hh == IF n >= 13 THEN NumAt(s, 12, 13) ELSE 0
        mm == IF n >= 16 THEN NumAt(s, 15, 16) ELSE 0
        ss == IF n >= 19 THEN NumAt(s, 18, 19) ELSE 0
    IN  IF ~shape THEN Raise("ValueError", "Invalid isoformat string")
        ELSE IF ~(y >= 1 /\ m \in 1..12 /\ d \in 1..DaysInMonth(y, m)
                  /\ hh \in 0..23 /\ mm \in 0..59 /\ ss \in 0..59)
        THEN Raise("ValueError", "value out of range")
        ELSE Ok([ord |-> DaysFromCivil(y, m, d), hour |-> hh, minute |-> mm])

\* timestamp + timezone_offset, the offset an int
AddOffset(timestamp, timezone_offset) ==
    CASE timestamp.t = "num" -> Ok(PyNum(timestamp.q + 4 * timezone_offset))
      [] timestamp.t = "big" -> Ok(PyBig)
      [] OTHER -> Raise("TypeError", "unsupported operand type(s) for +")

\* datetime.fromtimestamp(x) with no tz argument: the host's local time
fromtimestamp(x) ==
    CASE x.t = "num" ->
            LET secs == (x.q \div 4) + host_utc_offset
                sod == secs % 86400
            IN Ok([ord |-> secs \div 86400, hour |-> sod \div 3600,
                   minute |-> (sod % 3600) \div 60])
      [] x.t = "big" -> Raise("OverflowError", "timestamp out of range")
      [] OTHER -> Raise("TypeError", "a number is required")

\* dt.strftime('%I:%M %p')
strftime_IMp(dt) ==
    LET h12 == IF dt.hour % 12 = 0 THEN 12 ELSE dt.hour % 12
    IN TwoDigits(h12) \o ":" \o TwoDigits(dt.minute) \o " "
       \o (IF dt.hour < 12 THEN "AM" ELSE "PM")

WeekdayNames == <<"Mon", "Tue", "Wed", "Thu", "Fri", "Sat", "Sun">>

\* dt.strftime('%a'); 1970-01-01 was a Thursday
strftime_a(dt) == WeekdayNames[((dt.ord + 3) % 7) + 1]

\* the body of format_time's try block
format_time_try(timestamp, timezone_offset) ==
    LET dt_obj == IF timestamp.t = "str" THEN fromisoformat(timestamp)
                  ELSE LET sum == AddOffset(timestamp, timezone_offset)
                       IN IF sum.exc # "" THEN sum ELSE fromtimestamp(sum.v)
    IN IF dt_obj.exc # "" THEN dt_obj ELSE Ok(strftime_IMp(dt_obj.v))

\* format_time without its except clause
format_time_NoCatch(timestamp, timezone_offset) ==
    format_time_try(timestamp, timezone_offset)

format_time(timestamp, timezone_offset) ==
    LET r == format_time_try(timestamp, timezone_offset)
    IN IF r.exc # "" THEN Ok("-") ELSE r

-----------------------------------------------------------------------------
(* get_weather_description_and_icon *)

mapping ==
    0 :> <<<<"C","l","e","a","r"," ","s","k","y">>, "01d">> @@
    1 :> <<<<"M","a","i","n","l","y"," ","c","l","e","a","r">>, "01d">> @@
    2 :> <<<<"P","a","r","t","l","y"," ","c","l","o","u","d","y">>, "02d">> @@
    3 :> <<<<"O","v","e","r","c","a","s","t">>, "04d">> @@
    45 :> <<<<"F","o","g">>, "50d">> @@
    48 :> <<<<"D","e","p","o","s","i","t","i","n","g"," ","r","i","m","e"," ","f","o","g">>, "50d">> @@
    51 :> <<<<"D","r","i","z","z","l","e",":"," ","L","i","g","h","t">>, "09d">> @@
    53 :> <<<<"D","r","i","z","z","l","e",":"," ","M","o","d","e","r","a","t","e">>, "09d">> @@
    55 :> <<<<"D","r","i","z","z","l","e",":"," ","D","e","n","s","e">>, "09d">> @@
    61 :> <<<<"R","a","i","n",":"," ","S","l","i","g","h","t">>, "10d">> @@
    63 :> <<<<"R","a","i","n",":"," ","M","o","d","e","r","a","t","e">>, "10d">> @@
    65 :> <<<<"R","a","i","n",":"," ","H","e","a","v","y">>, "10d">> @@
    80 :> <<<<"R","a","i","n"," ","s","h","o","w","e","r","s",":"," ","S","l","i","g","h","t">>, "09d">> @@
    81 :> <<<<"R","a","i","n"," ","s","h","o","w","e","r","s",":"," ","M","o","d","e","r","a","t","e">>, "09d">> @@
    82 :> <<<<"R","a","i","n"," ","s","h","o","w","e","r","s",":"," ","V","i","o","l","e","n","t">>, "09d">> @@
    71 :> <<<<"S","n","o","w"," ","f","a","l","l",":"," ","S","l","i","g","h","t">>, "13d">> @@
    73 :> <<<<"S","n","o","w"," ","f","a","l","l",":"," ","M","o","d","e","r","a","t","e">>, "13d">> @@
    75 :> <<<<"S","n","o","w"," ","f","a","l","l",":"," ","H","e","a","v","y">>, "13d">> @@
    95 :> <<<<"T","h","u","n","d","e","r","s","t","o","r","m">>, "11d">>

mapping_default == <<<<"C","l","e","a","r"," ","s","k","y">>, "01d">>

\* mapping.get(code, default): a float equal to an int key finds that key,
\* any other hashable value gets the default, an unhashable one raises
mapping_get(code) ==
    CASE code.t = "num" ->
            IF code.q % 4 = 0 /\ (code.q \div 4) \in DOMAIN mapping
            THEN Ok(mapping[code.q \div 4]) ELSE Ok(mapping_default)
      [] code.t \in {"list", "dict"} -> Raise("TypeError", "unhashable type")
      [] OTHER -> Ok(mapping_default)

\* capitalisation that upper-cases the first character and keeps the rest
capitalize_FirstOnly(s) ==
    [i \in DOMAIN s |-> IF i = 1 THEN ToUpper(s[i]) ELSE s[i]]

\* str.capitalize(): first character upper-cased, the rest lower-cased
capitalize(s) ==
    [i \in DOMAIN s |-> IF i = 1 THEN ToUpper(s[i]) ELSE ToLower(s[i])]

get_weather_description_and_icon(code) ==
    LET r == mapping_get(code)
    IN IF r.exc # "" THEN r
       ELSE Ok([description |-> Join(capitalize(r.v[1])), icon |-> r.v[2]])

-----------------------------------------------------------------------------
(* requests: responses and exceptions *)

\* the direct base classes of the exceptions the handler can meet
Bases(e) ==
    CASE e \in {"HTTPError", "ConnectionError", "Timeout"} -> {"RequestException"}
      [] e = "JSONDecodeError" -> {"RequestException", "ValueError"}
      [] e = "RequestException" -> {"OSError"}
      [] e \in {"KeyError", "IndexError"} -> {"LookupError"}
      [] e = "BadRequestKeyError" -> {"KeyError"}
      [] e = "OverflowError" -> {"ArithmeticError"}
      [] e \in {"OSError", "LookupError", "ArithmeticError", "TypeError",
                "ValueError", "AttributeError"} -> {"Exception"}
      [] OTHER -> {}

RECURSIVE IsInstance(_, _)
IsInstance(e, cls) == e = cls \/ \E b \in Bases(e) : IsInstance(b, cls)

\* requests.get(url): the response, or the transport-level exception
requests_get(resp) ==
    IF resp.transport = "ok" THEN Ok(resp) ELSE Raise(resp.transport, "connection failed")

\* Response.raise_for_status(): raises for 4xx and 5xx status codes only
raise_for_status(resp) ==
    IF 400 <= resp.status /\ resp.status < 600
    THEN Raise("HTTPError", NatStr(resp.status)) ELSE Ok(PyNone)

\* Response.json(): the decoded body, or JSONDecodeError when the body is not JSON
\* (requests.exceptions.JSONDecodeError, both a RequestException and a ValueError)
response_json(resp) ==
    IF resp.body = None THEN Raise("JSONDecodeError", "Expecting value") ELSE Ok(resp.body[1])

\* the fetch without the raise_for_status() call
Fetch_NoRaise(resp) ==
    LET r1 == requests_get(resp)
    IN IF r1.exc # "" THEN r1 ELSE response_json(resp)

\* requests.get(...), raise_for_status(), json() in that order
Fetch(resp) ==
    LET r1 == requests_get(resp)
        r2 == raise_for_status(resp)
    IN IF r1.exc # "" THEN r1 ELSE IF r2.exc # "" THEN r2 ELSE response_json(resp)

-----------------------------------------------------------------------------
(* index(): the except clauses, in source order *)

Message(prefix, detail, suffix) == [prefix |-> prefix, detail |-> detail, suffix |-> suffix]

ApiErrorPrefix == "An API error occurred: "
NetworkErrorPrefix == "A network error occurred: "
ParseErrorPrefix == "Error parsing weather data. Missing data: "
UnexpectedErrorPrefix == "An unexpected error occurred: "
NotFoundPrefix == "City not found: '"
NotFoundSuffix == "'. Please check the spelling."

\* the clauses with the general request exception ahead of the HTTP one
ExceptClauses_BroadFirst ==
    << [classes |-> {"RequestException"}, prefix |-> NetworkErrorPrefix],
       [classes |-> {"HTTPError"}, prefix |-> ApiErrorPrefix],
       [classes |-> {"KeyError", "IndexError"}, prefix |-> ParseErrorPrefix],
       [classes |-> {"Exception"}, prefix |-> UnexpectedErrorPrefix] >>

ExceptClauses ==
    << [classes |-> {"HTTPError"}, prefix |-> ApiErrorPrefix],
       [classes |-> {"RequestException"}, prefix |-> NetworkErrorPrefix],
       [classes |-> {"KeyError", "IndexError"}, prefix |-> ParseErrorPrefix],
       [classes |-> {"Exception"}, prefix |-> UnexpectedErrorPrefix] >>

Catches(clause, e) == \E cls \in clause.classes : IsInstance(e, cls)

\* the message of the first clause that catches the exception
Handle(r) ==
    LET i == CHOOSE i \in DOMAIN ExceptClauses :
                /\ Catches(ExceptClauses[i], r.exc)
                /\ \A j \in 1..(i - 1) : ~Catches(ExceptClauses[j], r.exc)
    IN Message(ExceptClauses[i].prefix, r.arg, "")

\* the first failure of a sequence of evaluations, in evaluation order
FirstFailure(rs) ==
    IF \E i \in DOMAIN rs : rs[i].exc # ""
    THEN rs[CHOOSE i \in DOMAIN rs : rs[i].exc # "" /\ \A j \in 1..(i - 1) : rs[j].exc = ""]
    ELSE Ok(PyNone)

-----------------------------------------------------------------------------
(* index(): the body of the try block *)

\* Each operator below continues with the value of r unless evaluating r raised.

\* obj.get(key, default)
DictGet(obj, key, default) ==
    IF obj.t = "dict"
    THEN Ok(IF key \in DOMAIN obj.o THEN obj.o[key] ELSE default)
    ELSE Raise("AttributeError", "object has no attribute 'get'")

Sub(r, key) == IF r.exc # "" THEN r ELSE GetItem(r.v, key)
At(r, i) == IF r.exc # "" THEN r ELSE GetIndex(r.v, i)
GetOr(r, key, default) == IF r.exc # "" THEN r ELSE DictGet(r.v, key, default)
Fixed0(r) == IF r.exc # "" THEN r ELSE Format0f(r.v)
Fixed1(r) == IF r.exc # "" THEN r ELSE Format1f(r.v)
Translated(r) == IF r.exc # "" THEN r ELSE get_weather_description_and_icon(r.v)
TimeOfDay(r) == IF r.exc # "" THEN r ELSE format_time(r.v, 0)
Weekday(r) ==
    IF r.exc # "" THEN r
    ELSE IF fromisoformat(r.v).exc # "" THEN fromisoformat(r.v)
    ELSE Ok(strftime_a(fromisoformat(r.v).v))

NoGeo == [outcome |-> "error", r |-> Ok(PyNone), lat |-> PyNone, lon |-> PyNone, display |-> ""]

\* Step 1: geocoding, from requests.get to display_city_name
GeoStep(resp) ==
    LET geo_data == Fetch(resp)
        results == GetOr(geo_data, "results", PyNone)
    IN  IF results.exc # "" THEN [NoGeo EXCEPT !.r = results]
        ELSE IF ~Truthy(results.v) THEN [NoGeo EXCEPT !.outcome = "not_found"]
        ELSE
          LET first == At(Sub(geo_data, "results"), 0)
              latitude == Sub(first, "latitude")
              longitude == Sub(first, "longitude")
              name == Sub(first, "name")
              country_code == GetOr(first, "country_code", PyStr(<<>>))
              fail == FirstFailure(<<latitude, longitude, name, country_code>>)
          IN  IF fail.exc # "" THEN [NoGeo EXCEPT !.r = fail]
              ELSE [outcome |-> "resolved", r |-> Ok(PyNone),
                    lat |-> latitude.v, lon |-> longitude.v,
                    display |-> Interpolate(name.v) \o ", " \o Interpolate(country_code.v)]

ForecastFirst == 1
ForecastStop == 6

\* one pass of the forecast loop body, for index i of the daily arrays
ForecastEntry(daily_data, i) ==
    LET translated == Translated(At(Sub(daily_data, "weather_code"), i))
        day == Weekday(At(Sub(daily_data, "time"), i))
        temp == Fixed0(At(Sub(daily_data, "temperature_2m_max"), i))
        fail == FirstFailure(<<translated, day, temp>>)
    IN  IF fail.exc # "" THEN fail
        ELSE Ok([day |-> day.v, icon |-> translated.v.icon, temp |-> temp.v,
                 desc |-> translated.v.description])

\* for i in range(1, 6): forecast_list.append(...); stops at the first exception
\* and leaves what was appended so far
RECURSIVE ForecastLoop(_, _, _)
ForecastLoop(daily_data, i, acc) ==
    IF i >= ForecastStop THEN [r |-> Ok(PyNone), list |-> acc]
    ELSE LET e == ForecastEntry(daily_data, i)
         IN IF e.exc # "" THEN [r |-> e, list |-> acc]
            ELSE ForecastLoop(daily_data, i + 1, Append(acc, e.v))

\* Step 3: the weather_data dict, its values evaluated in source order
CurrentConditions(data, display) ==
    LET current == Sub(data, "current")
        translated == Translated(Sub(current, "weather_code"))
        temperature == Fixed0(Sub(current, "temperature_2m"))
        feels_like == Fixed0(Sub(current, "apparent_temperature"))
        wind == Fixed1(Sub(current, "wind_speed_10m"))
        humidity == Sub(current, "relative_humidity_2m")
        pressure == Fixed0(Sub(current, "pressure_msl"))
        uvi == Fixed1(At(Sub(Sub(data, "daily"), "uv_index_max"), 0))
        sunrise == TimeOfDay(At(Sub(Sub(data, "daily"), "sunrise"), 0))
        sunset == TimeOfDay(At(Sub(Sub(data, "daily"), "sunset"), 0))
        fail == FirstFailure(<<current, translated, temperature, feels_like, wind,
                               humidity, pressure, uvi, sunrise, sunset>>)
    IN  IF fail.exc # "" THEN fail
        ELSE Ok([city |-> display, temperature |-> temperature.v,
                 feels_like |-> feels_like.v, description |-> translated.v.description,
                 wind |-> wind.v, humidity |-> humidity.v, pressure |-> pressure.v,
                 uvi |-> uvi.v, sunrise |-> sunrise.v, sunset |-> sunset.v])

\* Steps 2 to 4: from requests.get(weather_url) to the end of the try block.
\* weather_data is assigned before the loop starts and forecast_list before its
\* first pass, so an exception in the loop leaves both assigned.
WeatherStep(resp, display) ==
    LET data == Fetch(resp)
        conditions == IF data.exc # "" THEN data ELSE CurrentConditions(data, display)
    IN  IF conditions.exc # ""
        THEN [r |-> conditions, weather_data |-> None, forecast_list |-> None]
        ELSE LET loop == ForecastLoop(Sub(data, "daily"), ForecastFirst, <<>>)
             IN [r |-> loop.r, weather_data |-> Some(conditions.v),
                 forecast_list |-> Some(loop.list)]

-----------------------------------------------------------------------------
(* The environment: form submissions and collaborator responses *)

\* entries per daily array of a complete weather response (a week)
DailyLen == 7
\* the largest weather code given to the translator directly, and how far
\* below zero the codes start
MaxCode == 100
CodeMargin == 3

Cities == {"Pune", "Qqq"}
Forms == {[k \in {} |-> ""]} \cup {("city" :> c) : c \in Cities}
Methods == {"GET", "POST"}
HostOffsets == {0 - 18000, 0, 19800}
StatusCodes == {200, 304, 404, 503}
TransportFailures == {"ConnectionError", "Timeout"}

EmptyDict == PyDict([k \in {} |-> PyNone])
DictSet(d, k, v) == PyDict((k :> v) @@ d.o)
DictDel(d, k) == PyDict([x \in (DOMAIN d.o) \ {k} |-> d.o[x]])
ListSet(l, i, v) == PyList([l.a EXCEPT ![i + 1] = v])
ListTake(l, n) == PyList(SubSeq(l.a, 1, n))

Place(name, cc, la, lo) ==
    PyDict("name" :> PyStr(name) @@ "country_code" :> PyStr(cc)
         @@ "latitude" :> PyNum(la) @@ "longitude" :> PyNum(lo))
Pune == Place(<<"P","u","n","e">>, <<"I","N">>, 74, 295)
Oslo == Place(<<"O","s","l","o">>, <<"N","O">>, 239, 43)

GeoBodies ==
    { None,
      Some(EmptyDict),
      Some(PyDict("results" :> PyList(<<>>))),
      Some(PyDict("results" :> PyNone)),
      Some(PyDict("results" :> PyList(<<Pune>>))),
      Some(PyDict("results" :> PyList(<<Oslo, Pune>>))),
      Some(PyDict("results" :> PyList(<<DictDel(Pune, "country_code")>>))),
      Some(PyDict("results" :> PyList(<<DictDel(Pune, "longitude")>>))),
      Some(PyDict("results" :> PyList(<<PyNone>>))),
      Some(PyDict("results" :> PyStr(<<"x">>))),
      Some(PyList(<<>>)) }

\* every body under status 200, a few of them under each other status
Responses(bodies, common) ==
    {[transport |-> f, status |-> 0, body |-> None] : f \in TransportFailures}
    \cup {[transport |-> "ok", status |-> 200, body |-> b] : b \in bodies}
    \cup {[transport |-> "ok", status |-> s, body |-> b] :
             s \in StatusCodes \ {200}, b \in common}

GeoResponses ==
    Responses(GeoBodies, {None, Some(PyDict("results" :> PyList(<<>>))),
                          Some(PyDict("results" :> PyList(<<Pune>>)))})

\* 2024-05-dd and 2024-05-ddThh:mm
DateText(dd) == <<"2","0","2","4","-","0","5","-", Digits[(dd \div 10) + 1], Digits[(dd % 10) + 1]>>
TimeText(dd, hh, mm) ==
    DateText(dd) \o <<"T", Digits[(hh \div 10) + 1], Digits[(hh % 10) + 1], ":",
                      Digits[(mm \div 10) + 1], Digits[(mm % 10) + 1]>>

CurrentKeys == {"temperature_2m", "apparent_temperature", "relative_humidity_2m",
                "pressure_msl", "wind_speed_10m", "weather_code"}
DailyKeys == {"time", "weather_code", "temperature_2m_max", "sunrise", "sunset",
              "uv_index_max"}

DailyCodes == <<0, 61, 77, 3, 95, 45, 2, 80, 1>>

ValidCurrent ==
    PyDict("temperature_2m" :> PyNum(93) @@ "apparent_temperature" :> PyNum(98)
         @@ "relative_humidity_2m" :> PyInt(65) @@ "pressure_msl" :> PyNum(4051)
         @@ "wind_speed_10m" :> PyNum(45) @@ "weather_code" :> PyInt(61))

ValidDaily ==
    PyDict("time" :> PyList([i \in 1..DailyLen |-> PyStr(DateText(i))])
         @@ "weather_code" :> PyList([i \in 1..DailyLen |-> PyInt(DailyCodes[i])])
         @@ "temperature_2m_max" :> PyList([i \in 1..DailyLen |-> PyNum(120 + 2 * i)])
         @@ "sunrise" :> PyList([i \in 1..DailyLen |-> PyStr(TimeText(i, 6, i))])
         @@ "sunset" :> PyList([i \in 1..DailyLen |-> PyStr(TimeText(i, 18, 59 - i))])
         @@ "uv_index_max" :> PyList([i \in 1..DailyLen |-> PyNum(29 + i)]))

ValidWeather == PyDict("current" :> ValidCurrent @@ "daily" :> ValidDaily)

\* values of the wrong shape for a number, a code or a timestamp
WrongShapes == {PyNone, PyStr(<<"n","/","a">>), PyBig, PyList(<<>>)}

WithCurrent(c) == DictSet(ValidWeather, "current", c)
WithDaily(d) == DictSet(ValidWeather, "daily", d)

WeatherBodies ==
    {None, Some(ValidWeather), Some(PyList(<<>>)),
     Some(DictDel(ValidWeather, "current")), Some(DictDel(ValidWeather, "daily")),
     Some(WithCurrent(PyNone)), Some(WithDaily(PyNone))}
    \cup {Some(WithCurrent(DictDel(ValidCurrent, k))) : k \in CurrentKeys}
    \cup {Some(WithCurrent(DictSet(ValidCurrent, k, w))) : k \in CurrentKeys, w \in WrongShapes}
    \cup {Some(WithDaily(DictDel(ValidDaily, k))) : k \in DailyKeys}
    \cup {Some(WithDaily(DictSet(ValidDaily, k, ListTake(ValidDaily.o[k], n)))) :
             k \in DailyKeys, n \in 0..(DailyLen - 1)}
    \cup {Some(WithDaily(PyDict([k \in DailyKeys |-> ListTake(ValidDaily.o[k], n)]))) :
             n \in 0..(DailyLen - 1)}
    \cup {Some(WithDaily(DictSet(ValidDaily, k, ListSet(ValidDaily.o[k], i, w)))) :
             k \in DailyKeys, i \in 0..(ForecastStop - 1), w \in WrongShapes}

WeatherResponses ==
    Responses(WeatherBodies, {None, Some(ValidWeather), Some(DictDel(ValidWeather, "current"))})

TranslatorCodes == (0 - CodeMargin)..MaxCode

Timestamps ==
    {PyInt(n) : n \in {0, 59, 60, 3599, 3600, 43199, 43200, 46800, 86399, 86400, 1000000}}
    \cup {PyNum(1), PyNum(0 - 1), PyBig, PyNone, PyList(<<>>), EmptyDict}
    \cup {PyStr(TimeText(1, h, m)) : h \in {0, 6, 11, 12, 13, 23, 24}, m \in {0, 5, 30, 60}}
    \cup {PyStr(DateText(d)) : d \in {0, 1, 31, 32}}
    \cup {PyStr(<<>>), PyStr(<<"n","o","t","-","a","-","d","a","t","e">>),
          PyStr(<<"2","0","2","3","-","0","2","-","2","9">>),
          PyStr(<<"2","0","2","4","-","0","2","-","2","9">>),
          PyStr(<<"2","0","2","4","-","0","5","-","0","1","T","0","6",":","3">>),
          PyStr(<<"2","0","2","4","/","0","5","/","0","1","T","0","6",":","3","0">>)}
TimezoneOffsets == {0, 3600, 0 - 18000, 19800}

-----------------------------------------------------------------------------
(* The handler as a state machine *)

NoRequest ==
    /\ method = "" /\ form = [k \in {} |-> ""] /\ city = ""
    /\ lat = PyNone /\ lon = PyNone /\ display_city_name = ""
    /\ weather_data = None /\ forecast_list = None /\ error_message = None
    /\ calls = <<>> /\ geo_seen = None /\ wx_seen = None /\ view = None /\ escaped = ""

Init ==
    /\ pc = "idle"
    /\ NoRequest
    /\ host_utc_offset \in HostOffsets
    /\ ft_arg = None /\ ft_out = None
    /\ tr_arg = None /\ tr_out = None

HarnessIdle == ft_arg = None /\ tr_arg = None

\* A request arrives: the three locals start as None; a POST reads
\* request.form['city'] outside the try block, so a form without the field raises
\* out of the handler; a GET goes straight to render_template.
Enter(m, f) ==
    /\ pc = "idle" /\ HarnessIdle
    /\ method' = m /\ form' = f
    /\ weather_data' = None /\ forecast_list' = None /\ error_message' = None
    /\ IF m # "POST" THEN pc' = "render" /\ UNCHANGED <<city, escaped>>
       ELSE IF "city" \in DOMAIN f THEN pc' = "geo" /\ city' = f["city"] /\ UNCHANGED escaped
       ELSE pc' = "raised" /\ escaped' = "BadRequestKeyError" /\ UNCHANGED city
    /\ UNCHANGED <<lat, lon, display_city_name, calls, geo_seen, wx_seen, view,
                   host_utc_offset, ft_arg, ft_out, tr_arg, tr_out>>

\* Step 1, up to the weather call or to the except clause that ends the try block
GeoCall(resp) ==
    /\ pc = "geo"
    /\ calls' = Append(calls, [api |-> "geocoding", name |-> city, latitude |-> "",
                               longitude |-> ""])
    /\ geo_seen' = Some(resp)
    /\ LET g == GeoStep(resp) IN
         CASE g.outcome = "resolved" ->
                /\ lat' = g.lat /\ lon' = g.lon /\ display_city_name' = g.display
                /\ pc' = "weather"
                /\ UNCHANGED error_message
           [] g.outcome = "not_found" ->
                /\ error_message' = Some(Message(NotFoundPrefix, city, NotFoundSuffix))
                /\ pc' = "render"
                /\ UNCHANGED <<lat, lon, display_city_name>>
           [] OTHER ->
                /\ error_message' = Some(Handle(g.r))
                /\ pc' = "render"
                /\ UNCHANGED <<lat, lon, display_city_name>>
    /\ UNCHANGED <<method, form, city, weather_data, forecast_list, wx_seen, view,
                   escaped, host_utc_offset, ft_arg, ft_out, tr_arg, tr_out>>

\* the locals as the try block leaves them, and the except clause if it raised
LeaveTry(w) ==
    /\ weather_data' = w.weather_data
    /\ forecast_list' = w.forecast_list
    /\ error_message' = IF w.r.exc # "" THEN Some(Handle(w.r)) ELSE error_message

\* Steps 2 to 4, up to the end of the try block or to the except clause
WeatherCall(resp) ==
    /\ pc = "weather"
    /\ calls' = Append(calls, [api |-> "forecast", name |-> "",
                               latitude |-> Interpolate(lat),
                               longitude |-> Interpolate(lon)])
    /\ wx_seen' = Some(resp)
    /\ LeaveTry(WeatherStep(resp, display_city_name))
    /\ pc' = "render"
    /\ UNCHANGED <<method, form, city, lat, lon, display_city_name, geo_seen, view,
                   escaped, host_utc_offset, ft_arg, ft_out, tr_arg, tr_out>>

\* return render_template('homepage.html', weather=..., forecast=..., error=...)
Render ==
    /\ pc = "render"
    /\ view' = Some([weather |-> weather_data, forecast |-> forecast_list,
                     error |-> error_message])
    /\ pc' = "done"
    /\ UNCHANGED <<method, form, city, lat, lon, display_city_name, weather_data,
                   forecast_list, error_message, calls, geo_seen, wx_seen, escaped,
                   host_utc_offset, ft_arg, ft_out, tr_arg, tr_out>>

\* the request is over; nothing of it is kept for the next one
Finish ==
    /\ pc \in {"done", "raised"}
    /\ pc' = "idle"
    /\ method' = "" /\ form' = [k \in {} |-> ""] /\ city' = ""
    /\ lat' = PyNone /\ lon' = PyNone /\ display_city_name' = ""
    /\ weather_data' = None /\ forecast_list' = None /\ error_message' = None
    /\ calls' = <<>> /\ geo_seen' = None /\ wx_seen' = None /\ view' = None
    /\ escaped' = ""
    /\ UNCHANGED <<host_utc_offset, ft_arg, ft_out, tr_arg, tr_out>>

\* a direct call of format_time(timestamp, timezone_offset)
FormatTimeCall(ts, off) ==
    /\ pc = "idle" /\ HarnessIdle
    /\ ft_arg' = Some([timestamp |-> ts, timezone_offset |-> off])
    /\ ft_out' = Some(format_time(ts, off))
    /\ UNCHANGED <<handler_vars, host_utc_offset, tr_arg, tr_out>>

\* a direct call of get_weather_description_and_icon(code)
TranslateCall(code) ==
    /\ pc = "idle" /\ HarnessIdle
    /\ tr_arg' = Some(code)
    /\ tr_out' = Some(get_weather_description_and_icon(PyInt(code)))
    /\ UNCHANGED <<handler_vars, host_utc_offset, ft_arg, ft_out>>

\* the direct call has returned
Return ==
    /\ ~HarnessIdle
    /\ ft_arg' = None /\ ft_out' = None /\ tr_arg' = None /\ tr_out' = None
    /\ UNCHANGED <<handler_vars, host_utc_offset>>

Next ==
    \/ \E m \in Methods, f \in Forms : Enter(m, f)
    \/ \E resp \in GeoResponses : GeoCall(resp)
    \/ \E resp \in WeatherResponses : WeatherCall(resp)
    \/ Render
    \/ Finish
    \/ \E ts \in Timestamps, off \in TimezoneOffsets : FormatTimeCall(ts, off)
    \/ \E code \in TranslatorCodes : TranslateCall(code)
    \/ Return

Spec == Init /\ [][Next]_vars

-----------------------------------------------------------------------------
(* Properties *)

Handed == view[1]
Posted == method = "POST"
GeoResp == geo_seen[1]
WxResp == wx_seen[1]

SuccessStatus(s) == 200 <= s /\ s < 300
ErrorStatus(s) == 400 <= s /\ s < 600

\* the response came back with a success status and a JSON object as its body
GoodObject(resp) ==
    /\ resp.transport = "ok" /\ SuccessStatus(resp.status)
    /\ resp.body # None /\ resp.body[1].t = "dict"

HasFirstResult(resp) ==
    /\ resp.body # None /\ resp.body[1].t = "dict"
    /\ "results" \in DOMAIN resp.body[1].o
    /\ resp.body[1].o["results"].t = "list"
    /\ resp.body[1].o["results"].a # <<>>
FirstResult(resp) == resp.body[1].o["results"].a[1]

GeoResolved == geo_seen # None /\ GoodObject(GeoResp) /\ Len(calls) = 2

\* C1: for every submission the view layer receives either a success (current
\* conditions and forecast present, no error message) or a failure (error message
\* present, current conditions and forecast both absent), never an error message
\* together with current conditions or a forecast.
C1_SuccessOrFailure ==
    (pc = "done" /\ Posted) =>
        \/ Handed.error = None /\ Handed.weather # None /\ Handed.forecast # None
        \/ Handed.error # None /\ Handed.weather = None /\ Handed.forecast = None

\* C2: whenever a forecast is handed to the view layer it has exactly 5 entries,
\* the k-th built from index k of the daily arrays; a short or malformed daily
\* series never yields a forecast of fewer than 5 entries.
C2_ForecastIsFiveDays ==
    (pc = "done" /\ Handed.forecast # None) =>
        /\ Len(Handed.forecast[1]) = 5
        /\ \A k \in 1..5 :
              Handed.forecast[1][k] = ForecastEntry(Sub(Ok(WxResp.body[1]), "daily"), k).v

NoResults(resp) ==
    /\ GoodObject(resp)
    /\ \/ "results" \notin DOMAIN resp.body[1].o
       \/ resp.body[1].o["results"] = PyList(<<>>)

CityNotFound == Message("City not found: '", city, "'. Please check the spelling.")

\* C3: when the geocoding call succeeds but its response has no results (key absent
\* or list empty), the request fails with the city-not-found error naming the
\* submitted city and no weather call is made.
C3_NoResultsIsCityNotFound ==
    (geo_seen # None /\ NoResults(GeoResp)) =>
        /\ error_message = Some(CityNotFound)
        /\ Len(calls) = 1 /\ calls[1].api = "geocoding"
        /\ wx_seen = None
        /\ pc \in {"render", "done"}
        /\ pc = "done" => Handed = [weather |-> None, forecast |-> None,
                                    error |-> Some(CityNotFound)]

C3_Witness ==
    /\ pc = "done" /\ city = "Qqq"
    /\ GeoResp.body = Some(PyDict("results" :> PyList(<<>>)))
    /\ Handed.error = Some(CityNotFound)
    /\ Len(calls) = 1

\* what a failed call must leave behind, for the statuses Failing(_) names
CallFails(resp, Failing(_), geo) ==
    /\ resp.transport # "ok" =>
          /\ error_message # None
          /\ error_message[1].prefix = "A network error occurred: "
          /\ geo => Len(calls) = 1
    /\ (resp.transport = "ok" /\ Failing(resp.status)) =>
          /\ error_message = Some(Message("An API error occurred: ", NatStr(resp.status), ""))
          /\ geo => Len(calls) = 1

NumericCurrentKeys == {"temperature_2m", "apparent_temperature", "relative_humidity_2m",
                       "pressure_msl", "wind_speed_10m"}
LoopKeys == {"time", "weather_code", "temperature_2m_max"}
TodayKeys == {"sunrise", "sunset", "uv_index_max"}

\* the weather body lacks a field the handler reads
LacksField(body) ==
    \/ "current" \notin DOMAIN body.o
    \/ "daily" \notin DOMAIN body.o
    \/ /\ "current" \in DOMAIN body.o /\ body.o["current"].t = "dict"
       /\ \E k \in CurrentKeys : k \notin DOMAIN body.o["current"].o
    \/ /\ "daily" \in DOMAIN body.o /\ body.o["daily"].t = "dict"
       /\ \/ \E k \in DailyKeys : k \notin DOMAIN body.o["daily"].o
          \/ \E k \in LoopKeys \cap DOMAIN body.o["daily"].o :
                /\ body.o["daily"].o[k].t = "list"
                /\ Len(body.o["daily"].o[k].a) < 6
          \/ \E k \in TodayKeys \cap DOMAIN body.o["daily"].o :
                body.o["daily"].o[k] = PyList(<<>>)

\* a field of the weather body where a number is expected holds no number
WrongShape(body) ==
    /\ "current" \in DOMAIN body.o /\ body.o["current"].t = "dict"
    /\ \E k \in NumericCurrentKeys \cap DOMAIN body.o["current"].o :
          body.o["current"].o[k].t \in {"none", "str"}

\* C5: when both calls return success but the weather response lacks an expected
\* field or carries a field of the wrong shape, the request fails with the
\* malformed-data error, not with another error kind and not with a success.
C5_MalformedIsParseError ==
    (pc = "done" /\ GeoResolved /\ GoodObject(WxResp)
       /\ (LacksField(WxResp.body[1]) \/ WrongShape(WxResp.body[1]))) =>
        /\ Handed.error # None
        /\ Handed.error[1].prefix = "Error parsing weather data. Missing data: "

\* the mapping table of the specification
SpecTable ==
    0 :> <<"Clear sky", "01d">> @@ 1 :> <<"Mainly clear", "01d">> @@
    2 :> <<"Partly cloudy", "02d">> @@ 3 :> <<"Overcast", "04d">> @@
    45 :> <<"Fog", "50d">> @@ 48 :> <<"Depositing rime fog", "50d">> @@
    51 :> <<"Drizzle: light", "09d">> @@ 53 :> <<"Drizzle: moderate", "09d">> @@
    55 :> <<"Drizzle: dense", "09d">> @@ 61 :> <<"Rain: slight", "10d">> @@
    63 :> <<"Rain: moderate", "10d">> @@ 65 :> <<"Rain: heavy", "10d">> @@
    71 :> <<"Snow fall: slight", "13d">> @@ 73 :> <<"Snow fall: moderate", "13d">> @@
    75 :> <<"Snow fall: heavy", "13d">> @@ 80 :> <<"Rain showers: slight", "09d">> @@
    81 :> <<"Rain showers: moderate", "09d">> @@ 82 :> <<"Rain showers: violent", "09d">> @@
    95 :> <<"Thunderstorm", "11d">>

DayIcons == {"01d", "02d", "04d", "09d", "10d", "11d", "13d", "50d"}

\* C6: the translator never fails on an integer code; for each of the 19 codes of
\* the table it returns the pair of the specification's table, only the first
\* letter of the description capitalised, for every other code ("Clear sky",
\* "01d"), and every icon carries the day suffix.
C6_TranslateMatchesTable ==
    tr_out # None =>
        /\ tr_out[1].exc = ""
        /\ Cardinality(DOMAIN SpecTable) = 19
        /\ <<tr_out[1].v.description, tr_out[1].v.icon>> =
              (IF tr_arg[1] \in DOMAIN SpecTable THEN SpecTable[tr_arg[1]]
               ELSE <<"Clear sky", "01d">>)
        /\ tr_out[1].v.icon \in DayIcons

C6_Witness ==
    /\ tr_arg = Some(51) /\ tr_out # None
    /\ tr_out[1].v = [description |-> "Drizzle: light", icon |-> "09d"]

\* timestamps that cannot be parsed: other types, a number out of range, and
\* strings that are no ISO date-time
MalformedTimestamps ==
    {PyBig, PyNone, PyList(<<>>), EmptyDict, PyStr(<<>>),
     PyStr(<<"n","o","t","-","a","-","d","a","t","e">>), PyStr(<<"n","/","a">>),
     PyStr(<<"2","0","2","3","-","0","2","-","2","9">>),
     PyStr(<<"2","0","2","4","-","0","5","-","0","1","T","0","6",":","3">>),
     PyStr(<<"2","0","2","4","/","0","5","/","0","1","T","0","6",":","3","0">>),
     PyStr(DateText(0)), PyStr(DateText(32))}
    \cup {PyStr(TimeText(1, 24, m)) : m \in {0, 5, 30, 60}}
    \cup {PyStr(TimeText(1, h, 60)) : h \in {0, 6, 11, 12, 13, 23}}

\* the complete weather body but for today's entry of daily array k, which is w
WithToday(k, w) == WithDaily(DictSet(ValidDaily, k, ListSet(ValidDaily.o[k], 0, w)))

\* C7: format_time never raises, and returns "-" for a malformed string, an
\* out-of-range number or a value of another type; so a malformed but present
\* sunrise or sunset of today does not abort the request, which succeeds with "-"
\* in that field.
C7_FormatTimeNeverRaises ==
    /\ ft_out # None =>
          /\ ft_out[1].exc = ""
          /\ ft_arg[1].timestamp \in MalformedTimestamps => ft_out[1].v = "-"
    /\ (pc = "done" /\ GeoResolved /\ GoodObject(WxResp)) =>
          \A w \in MalformedTimestamps :
              /\ WxResp.body[1] = WithToday("sunrise", w) =>
                    /\ Handed.error = None /\ Handed.forecast # None
                    /\ Handed.weather # None /\ Handed.weather[1].sunrise = "-"
              /\ WxResp.body[1] = WithToday("sunset", w) =>
                    /\ Handed.error = None /\ Handed.forecast # None
                    /\ Handed.weather # None /\ Handed.weather[1].sunset = "-"

C7_Witness ==
    /\ pc = "done" /\ GeoResolved /\ GoodObject(WxResp)
    /\ WxResp.body[1] = WithToday("sunrise", PyNone)
    /\ Handed.error = None
    /\ Handed.weather[1].sunrise = "-"

\* the 12-hour rendering of second s of a UTC day
UtcRendering(s) ==
    strftime_IMp([ord |-> 0, hour |-> s \div 3600, minute |-> (s % 3600) \div 60])

\* C8: for a numeric timestamp t and offset o the result is the 12-hour rendering
\* of the UTC wall-clock time of epoch second t + o: it is determined by
\* (t + o) mod 86400 alone and does not depend on the host's time zone.
C8_NumericIsUtcPlusOffset ==
    (ft_out # None /\ ft_arg[1].timestamp.t = "num") =>
        ft_out[1].v = UtcRendering(((ft_arg[1].timestamp.q \div 4)
                                    + ft_arg[1].timezone_offset) % 86400)

\* C9: every failure during a form submission becomes a user-facing error message
\* and the handler still hands a response to the view layer; no failure, reading
\* the submitted city included, propagates out of the handler.
C9_NothingEscapes ==
    /\ escaped = ""
    /\ pc # "raised"

GeoRequest == [api |-> "geocoding", name |-> city, latitude |-> "", longitude |-> ""]
WeatherRequest(place) ==
    [api |-> "forecast", name |-> "", latitude |-> Interpolate(place.o["latitude"]),
     longitude |-> Interpolate(place.o["longitude"])]

\* one step of the handler, as far as the outbound calls go; Proceeds(_) names the
\* geocoding statuses after which the weather call may follow
CallsStep(Proceeds(_)) ==
    \/ calls' = calls
    \/ calls' = <<>> /\ pc' = "idle"
    \/ /\ calls = <<>> /\ Posted /\ error_message = None
       /\ calls' = <<GeoRequest>>
    \/ /\ calls = <<GeoRequest>> /\ Posted /\ error_message = None
       /\ geo_seen # None /\ GeoResp.transport = "ok" /\ Proceeds(GeoResp.status)
       /\ HasFirstResult(GeoResp)
       /\ calls' = <<GeoRequest, WeatherRequest(FirstResult(GeoResp))>>

====
